---- MODULE Spec2Model ----
(***************************************************************************)
(* Model of the runner configuration resolution and generation code:       *)
(*   - GitlabRunnerAutoscalingJobRunner (src/src/runner/job-runner.ts):    *)
(*     resolves token and name, the instance type, the machine image, the  *)
(*     role and the instance profile of a runner group and records the     *)
(*     keyPair diagnostic;                                                 *)
(*   - GitlabRunnerStack (src/unnamed/part_000): renders config.toml, the  *)
(*     cfn-init metadata, the boot commands and the cache bucket.          *)
(*                                                                         *)
(* The security groups, the manager role, the elastic IP and the bucket    *)
(* deployment that the stack also declares are passed to the platform      *)
(* as they are and are not part of the state.                              *)
(*                                                                         *)
(* Conventions.  An optional JavaScript value is a set with at most one    *)
(* element: {} is undefined, {v} is the value v.  A string that the code   *)
(* inspects character by character (a name) is a sequence of one-character *)
(* strings; a construct id is a sequence of string fragments.              *)
(***************************************************************************)
EXTENDS Integers, Sequences, FiniteSets, TLC

VARIABLES
  props,       \* GitlabRunnerAutoscalingJobRunnerProps of the declared group
  stackProps,  \* GitlabRunnerStackProps of the declared stack
  jobRunner,   \* the GitlabRunnerAutoscalingJobRunner object, {} until built
  scope,       \* constructs the job runner created in its scope
  annotations, \* Annotations recorded on the construct tree
  tags,        \* Tags.of(x).add(k, v) calls, as <<construct id, key, value>>
  gitlabStack, \* the GitlabRunnerStack object, {} until built
  manager,     \* what the boot commands did on the manager instance
  previous,    \* role and profile ids of the preceding synthesis, {} if none
  uniqueNames  \* names generateUniqueName returned in this synthesis

vars == <<props, stackProps, jobRunner, scope, annotations, tags,
          gitlabStack, manager, previous, uniqueNames>>

----------------------------------------------------------------------------
(* Bounds of the model *)

MaxNameLen == 2
MaxTime == 2
MaxRandom == 1
MaxNumber == 2
MaxDays == 2
MaxToday == 2

----------------------------------------------------------------------------
(* JavaScript values *)

Undefined == {}

Some(v) == {v}

The(o) == CHOOSE v \in o : TRUE

\* a ?? b
Nullish(a, b) == IF a = Undefined THEN b ELSE a

\* a || b for optional objects (an object is always truthy)
OrElse(a, b) == IF a = Undefined THEN b ELSE a

\* !s for an optional string: undefined and "" are falsy
FalsyString(o) == o = Undefined \/ The(o) = ""

SeqsUpTo(S, n) == UNION {[1..k -> S] : k \in 0..n}

RECURSIVE Flatten(_)
Flatten(ss) == IF ss = <<>> THEN <<>> ELSE Head(ss) \o Flatten(Tail(ss))

\* Number.prototype.toString, as a sequence of digit characters
DigitChars == <<"0", "1", "2", "3", "4", "5", "6", "7", "8", "9">>

RECURSIVE NumberToChars(_)
NumberToChars(n) ==
  IF n < 10 THEN <<DigitChars[n + 1]>>
  ELSE NumberToChars(n \div 10) \o <<DigitChars[(n % 10) + 1]>>

----------------------------------------------------------------------------
(* pascal-case, as imported by job-runner.ts *)

LowerLetters == <<"a", "b", "e", "g", "i", "l", "n", "r", "t", "u">>
UpperLetters == <<"A", "B", "E", "G", "I", "L", "N", "R", "T", "U">>

Range(s) == {s[i] : i \in 1..Len(s)}

LowerSet == Range(LowerLetters)
UpperSet == Range(UpperLetters)
DigitSet == Range(DigitChars)

IsLower(c) == c \in LowerSet
IsUpper(c) == c \in UpperSet
IsDigit(c) == c \in DigitSet
IsAlnum(c) == IsLower(c) \/ IsUpper(c) \/ IsDigit(c)

IndexOf(s, c) == CHOOSE i \in 1..Len(s) : s[i] = c

toUpperCase(c) == IF IsLower(c) THEN UpperLetters[IndexOf(LowerLetters, c)] ELSE c
toLowerCase(c) == IF IsUpper(c) THEN LowerLetters[IndexOf(UpperLetters, c)] ELSE c

\* no-case splitRegexp: /([a-z0-9])([A-Z])/g and /([A-Z])([A-Z][a-z])/g put a
\* word break between s[i] and s[i+1]
SplitAfter(s, i) ==
  /\ i < Len(s)
  /\ \/ (IsLower(s[i]) \/ IsDigit(s[i])) /\ IsUpper(s[i + 1])
     \/ /\ i + 2 <= Len(s)
        /\ IsUpper(s[i]) /\ IsUpper(s[i + 1]) /\ IsLower(s[i + 2])

\* no-case: split, strip /[^A-Z0-9]+/gi, trim and split("\0")
RECURSIVE NoCaseWords(_, _, _, _)
NoCaseWords(s, i, cur, done) ==
  IF i > Len(s) THEN (IF cur = <<>> THEN done ELSE Append(done, cur))
  ELSE IF ~IsAlnum(s[i])
       THEN NoCaseWords(s, i + 1, <<>>, IF cur = <<>> THEN done ELSE Append(done, cur))
       ELSE IF SplitAfter(s, i)
            THEN NoCaseWords(s, i + 1, <<>>, Append(done, Append(cur, s[i])))
            ELSE NoCaseWords(s, i + 1, Append(cur, s[i]), done)

pascalCaseTransform(word, index) ==
  LET firstChar == Head(word)
      lowerChars == [k \in 1..(Len(word) - 1) |-> toLowerCase(word[k + 1])]
  IN IF index > 0 /\ IsDigit(firstChar)
     THEN <<"_", firstChar>> \o lowerChars
     ELSE <<toUpperCase(firstChar)>> \o lowerChars

pascalCase(s) ==
  LET words == NoCaseWords(s, 1, <<>>, <<>>)
  IN Flatten([k \in 1..Len(words) |-> pascalCaseTransform(words[k], k - 1)])

----------------------------------------------------------------------------
(* GitlabRunnerAutoscalingJobRunner *)

NameAlphabet == {"a", "B", "-"}
NameStrings == SeqsUpTo(NameAlphabet, MaxNameLen)

Times == 1..MaxTime
Randoms == 0..MaxRandom

GitlabRunnerPrefix ==
  <<"g", "i", "t", "l", "a", "b", "-", "r", "u", "n", "n", "e", "r", "-">>

\* `gitlab-runner-${new Date().getTime().toString()}${Math.floor(Math.random() * 100000)}`
generateUniqueName(time, random) ==
  GitlabRunnerPrefix \o NumberToChars(time) \o NumberToChars(random)

KeyPairError ==
  "If runner.keyPair is configured, then props.configuration.machine.machineOptions.keypairName must also be set."

T3Micro == "t3.micro"
UbuntuFocalLookup == "ubuntu/images/hvm-ssd/ubuntu-focal-20.04-amd64-server-*"

RunnerConfiguration ==
  [token : {Undefined} \cup {Some(t) : t \in {"", "tok"}},
   name : {Undefined} \cup {Some(n) : n \in NameStrings},
   keypairName : {Undefined} \cup {Some(k) : k \in {"", "kp"}}]

SuppliedRole ==
  [id |-> <<"SuppliedRole">>, roleName |-> <<"SuppliedRole">>,
   assumedBy |-> "ec2.amazonaws.com", managedPolicies |-> <<>>]

GitlabRunnerAutoscalingJobRunnerProps ==
  [token : {Undefined} \cup {Some(t) : t \in {"", "ptok"}},
   configuration : RunnerConfiguration,
   instanceType : {Undefined, Some("m5.large")},
   machineImage : {Undefined, Some("ami-custom")},
   role : {Undefined, Some(SuppliedRole)},
   keyPair : {Undefined, Some("AnyKeyPairSecret")}]

RoleId(name) == <<"RunnersRoleFor">> \o pascalCase(name)

InstanceProfileId(name) == <<"RunnersInstanceProfileFor">> \o pascalCase(name)

\* new Role(scope, `RunnersRoleFor${pascalCase(name)}`, {...})
NewRunnersRole(name) ==
  [id |-> RoleId(name), roleName |-> RoleId(name),
   assumedBy |-> "ec2.amazonaws.com",
   managedPolicies |-> <<"AmazonSSMManagedInstanceCore">>]

\* new CfnInstanceProfile(scope, `RunnersInstanceProfileFor${...}`, {roles})
NewInstanceProfile(name, role) ==
  [id |-> InstanceProfileId(name), roles |-> <<role.roleName>>]

\* props.configuration.name ?? GitlabRunnerAutoscalingJobRunner.generateUniqueName():
\* the right operand is evaluated only when the left one is undefined
GeneratedNames(p) ==
  IF p.configuration.name = Undefined
  THEN {Some(generateUniqueName(time, random)) : time \in Times, random \in Randoms}
  ELSE {Undefined}

\* this.configuration = {...props.configuration, token: ..., name: ...};
\* keypairName stands for machine.machineOptions.keypairName, which the
\* spread copies
ResolveConfiguration(p, generated) ==
  [p.configuration EXCEPT
     !.token = Nullish(p.configuration.token, p.token),
     !.name = Nullish(p.configuration.name, generated)]

\* a constructor that creates its own role whatever the caller supplied
ResolveRoleAlwaysNew(p, name) == Some(NewRunnersRole(name))

\* this.role = props.role || new Role(...)
ResolveRole(p, name) == OrElse(p.role, Some(NewRunnersRole(name)))

\* the keyPair rule of the constructor
KeyPairRuleFails(p) ==
  p.keyPair # Undefined /\ FalsyString(p.configuration.keypairName)

\* The constructor, run once per synthesis of the app.
JobRunnerConstructor ==
  /\ jobRunner = Undefined
  /\ \E generated \in GeneratedNames(props) :
       LET configuration == ResolveConfiguration(props, generated)
           role == The(ResolveRole(props, The(configuration.name)))
           instanceProfile == NewInstanceProfile(The(configuration.name), role)
       IN /\ jobRunner' =
               Some([configuration |-> configuration,
                     instanceType |-> The(OrElse(props.instanceType, Some(T3Micro))),
                     machineImage |->
                       The(OrElse(props.machineImage, Some(UbuntuFocalLookup))),
                     role |-> role,
                     instanceProfile |-> instanceProfile,
                     keyPair |-> props.keyPair])
          /\ uniqueNames' = uniqueNames \cup generated
          /\ scope' =
               (IF props.role = Undefined
                THEN {[type |-> "Role", id |-> role.id]} ELSE {})
               \cup {[type |-> "CfnInstanceProfile", id |-> instanceProfile.id]}
          /\ annotations' =
               IF KeyPairRuleFails(props)
               THEN annotations \cup {[level |-> "error", message |-> KeyPairError]}
               ELSE annotations
          /\ tags' = tags \cup {<<role.id, "RunnersRole", "RunnersRole">>}
  /\ UNCHANGED <<props, stackProps, gitlabStack, manager, previous>>

----------------------------------------------------------------------------
(* Rendered text.  A document is a sequence of lines, a line a sequence of   *)
(* lexical tokens; white space is not kept.  A template substitution that    *)
(* yields the empty string contributes no token.                             *)

Q == "\""

RECURSIVE JoinChars(_)
JoinChars(cs) == IF cs = <<>> THEN "" ELSE Head(cs) \o JoinChars(Tail(cs))

\* `${n}` for a number
NumberString(n) == JoinChars(NumberToChars(n))

\* `${v}` for an optional string: undefined renders as "undefined"
TemplateString(o) == IF o = Undefined THEN "undefined" ELSE The(o)

Text(s) == IF s = "" THEN <<>> ELSE <<s>>

Quoted(tokens) == <<Q>> \o tokens \o <<Q>>

----------------------------------------------------------------------------
(* GitlabRunnerStack *)

stackName == "GitlabRunnerStack"
region == "us-east-1"
urlSuffix == "amazonaws.com"
RunnersInstanceProfileLogicalId == "RunnersInstanceProfile"

Numbers == 0..MaxNumber

\* a plain stack declaration: no spot instances, one build at a time
PlainStackProps ==
  [instanceTypeIdentifier |-> "t3.nano",
   cacheBucketName |-> "runner-cache",
   cacheExpirationInDays |-> 1,
   availabilityZone |-> "a",
   vpcId |-> "vpc-1",
   managerKeyPair |-> "manager-key",
   gitlabUrl |-> "https://gitlab.com",
   gitlabToken |-> Some("tok"),
   gitlabRunnerInstanceType |-> "t3.micro",
   gitlabDockerImage |-> "alpine",
   gitlabMaxBuilds |-> 1,
   gitlabMaxConcurrentBuilds |-> 1,
   gitlabIdleCount |-> 0,
   gitlabIdleTime |-> 300,
   gitlabOffPeakTimezone |-> "UTC",
   gitlabOffPeakIdleCount |-> 0,
   gitlabOffPeakIdleTime |-> 1200,
   gitlabCheckInterval |-> 0,
   gitlabRunnerSpotInstance |-> FALSE,
   gitlabRunnerSpotInstancePrice |-> Undefined]

\* the declarations that differ from the plain one in the fields the code
\* branches on or substitutes as numbers
GitlabRunnerStackProps ==
  {[PlainStackProps EXCEPT
      !.cacheExpirationInDays = days,
      !.gitlabToken = token,
      !.gitlabMaxBuilds = maxBuilds,
      !.gitlabMaxConcurrentBuilds = maxConcurrentBuilds,
      !.gitlabCheckInterval = checkInterval,
      !.gitlabRunnerSpotInstance = spot,
      !.gitlabRunnerSpotInstancePrice = price] :
     days \in 0..MaxDays,
     token \in {Undefined} \cup {Some(t) : t \in {"", "tok"}},
     maxBuilds \in Numbers,
     maxConcurrentBuilds \in Numbers,
     checkInterval \in Numbers,
     spot \in BOOLEAN,
     price \in {Undefined, Some("0.03")}}

\* `${cond ? "amazonec2-request-spot-instance=true" : ""}`
SpotRequestLine(p) ==
  IF p.gitlabRunnerSpotInstance
  THEN <<"amazonec2-request-spot-instance", "=", "true">>
  ELSE Text("")

\* `${cond ? `amazonec2-spot-price=${price}` : ""}`
SpotPriceLine(p) ==
  IF p.gitlabRunnerSpotInstance
  THEN <<"amazonec2-spot-price", "=">>
         \o Text(TemplateString(p.gitlabRunnerSpotInstancePrice))
  ELSE Text("")

MachineOptionsLines(p) ==
  << <<"MachineOptions", "=", "[">>,
     Quoted(<<"amazonec2-instance-type", "=">> \o Text(p.gitlabRunnerInstanceType))
       \o <<",">>,
     Quoted(<<"amazonec2-region", "=", region>>) \o <<",">>,
     Quoted(<<"amazonec2-vpc-id", "=">> \o Text(p.vpcId)) \o <<",">>,
     Quoted(<<"amazonec2-zone", "=">> \o Text(p.availabilityZone)) \o <<",">>,
     \* props.vpcSubnet is a SubnetSelection object
     Quoted(<<"amazonec2-subnet-id", "=", "[object Object]">>) \o <<",">>,
     Quoted(<<"amazonec2-security-group", "=", stackName, "-RunnersSecurityGroup">>)
       \o <<",">>,
     Quoted(<<"amazonec2-use-private-address", "=", "true">>) \o <<",">>,
     Quoted(<<"amazonec2-iam-instance-profile", "=",
              RunnersInstanceProfileLogicalId>>),
     SpotRequestLine(p),
     SpotPriceLine(p),
     <<"]">> >>

OffPeakPeriodsLine ==
  <<"OffPeakPeriods", "=", "[">>
    \o Quoted(<<"*", " ", "*", " ", "0", "-", "8", ",", "18", "-", "23", " ",
                "*", " ", "*", " ", "mon", "-", "fri", " ", "*">>)
    \o <<",">>
    \o Quoted(<<"*", " ", "*", " ", "*", " ", "*", " ", "*", " ",
                "sat", ",", "sun", " ", "*">>)
    \o <<"]">>

\* the text of /etc/gitlab-runner/config.toml
ConfigToml(p) ==
  << <<"concurrent", "=">> \o Text(NumberString(p.gitlabMaxBuilds)),
     <<"check_interval", "=">> \o Text(NumberString(p.gitlabCheckInterval)),
     <<"[[", "runners", "]]">>,
     <<"name", "=">> \o Quoted(Text(stackName)),
     <<"url", "=">> \o Quoted(Text(p.gitlabUrl)),
     <<"token", "=">> \o Quoted(Text(TemplateString(p.gitlabToken))),
     <<"executor", "=">> \o Quoted(<<"docker+machine">>),
     <<"environment", "=", "[">>,
     Quoted(<<"DOCKER_DRIVER", "=", "overlay2">>) \o <<",">>,
     Quoted(<<"DOCKER_TLS_CERTDIR", "=", "/certs">>),
     <<"]">>,
     <<"[", "runners.docker", "]">>,
     <<"tls_verify", "=", "false">>,
     <<"image", "=">> \o Quoted(Text(p.gitlabDockerImage)),
     <<"privileged", "=", "true">>,
     <<"disable_cache", "=", "false">>,
     <<"volumes", "=", "[">> \o Quoted(<<"/certs/client">>) \o <<",">>
        \o Quoted(<<"/cache">>) \o <<"]">>,
     <<"shm_size", "=", "0">>,
     <<"[", "runners.cache", "]">>,
     <<"Type", "=">> \o Quoted(<<"s3">>),
     <<"Shared", "=", "true">>,
     <<"[", "runners.cache.s3", "]">>,
     <<"ServerAddress", "=">> \o Quoted(<<"s3.", urlSuffix>>),
     <<"BucketName", "=">> \o Quoted(Text(p.cacheBucketName)),
     <<"BucketLocation", "=">> \o Quoted(<<region>>),
     <<"[", "runners.machine", "]">>,
     <<"IdleCount", "=">> \o Text(NumberString(p.gitlabIdleCount)),
     <<"IdleTime", "=">> \o Text(NumberString(p.gitlabIdleTime)),
     <<"MaxBuilds", "=">> \o Text(NumberString(p.gitlabMaxBuilds)),
     <<"MachineDriver", "=">> \o Quoted(<<"amazonec2">>),
     <<"MachineName", "=">> \o Quoted(<<"gitlab-docker-machine-%s">>) >>
  \o MachineOptionsLines(p)
  \o << <<"OffPeakTimezone", "=">> \o Quoted(Text(p.gitlabOffPeakTimezone)),
        OffPeakPeriodsLine,
        <<"OffPeakIdleCount", "=">> \o Text(NumberString(p.gitlabOffPeakIdleCount)),
        <<"OffPeakIdleTime", "=">> \o Text(NumberString(p.gitlabOffPeakIdleTime)) >>

----------------------------------------------------------------------------
(* Reading the rendered text back, as the runner agent's TOML reader does *)

Last(s) == s[Len(s)]

IsHeader(line) == line # <<>> /\ line[1] \in {"[", "[["}

\* the lines of a table: after its header (0 for the root table) and before
\* the next header
TableStart(doc, table) ==
  IF table = "" THEN 0
  ELSE CHOOSE i \in 1..Len(doc) :
         IsHeader(doc[i]) /\ Len(doc[i]) = 3 /\ doc[i][2] = table

TableEnd(doc, table) ==
  LET start == TableStart(doc, table)
      later == {i \in (start + 1)..Len(doc) : IsHeader(doc[i])}
  IN IF later = {} THEN Len(doc) + 1
     ELSE CHOOSE i \in later : \A j \in later : i <= j

KeyLines(doc, table, key) ==
  {i \in (TableStart(doc, table) + 1)..(TableEnd(doc, table) - 1) :
     Len(doc[i]) >= 2 /\ doc[i][1] = key /\ doc[i][2] = "="}

\* the tokens of a key's value; an array runs to the line that ends with "]"
ValueTokens(doc, table, key) ==
  LET i == CHOOSE k \in KeyLines(doc, table, key) : TRUE
      rest == SubSeq(doc[i], 3, Len(doc[i]))
      ends == {j \in i..Len(doc) : doc[j] # <<>> /\ Last(doc[j]) = "]"}
      j == CHOOSE k \in ends : \A m \in ends : k <= m
  IN IF rest # <<>> /\ rest[1] = "[" /\ ends # {}
     THEN rest \o Flatten(SubSeq(doc, i + 1, j))
     ELSE rest

\* an integer value: one token that is the decimal text of a number
ParseNumber(tokens) ==
  IF Len(tokens) = 1 /\ \E n \in Numbers : NumberString(n) = tokens[1]
  THEN Some(CHOOSE n \in Numbers : NumberString(n) = tokens[1])
  ELSE Undefined

\* an array of strings: "[" then quoted strings separated by "," (a trailing
\* "," is allowed) then "]".  Undefined when the tokens are no such array,
\* otherwise the strings, each the tokens between its quotes.
RECURSIVE ParseItems(_, _, _, _, _)
ParseItems(toks, i, mode, cur, entries) ==
  IF i > Len(toks) THEN Undefined
  ELSE LET t == toks[i] IN
    CASE mode = "string" ->
           IF t = Q THEN ParseItems(toks, i + 1, "after", <<>>, Append(entries, cur))
           ELSE ParseItems(toks, i + 1, "string", Append(cur, t), entries)
      [] mode = "value" ->
           IF t = Q THEN ParseItems(toks, i + 1, "string", <<>>, entries)
           ELSE IF t = "]" /\ i = Len(toks) THEN Some(entries)
           ELSE Undefined
      [] OTHER ->
           IF t = "," THEN ParseItems(toks, i + 1, "value", <<>>, entries)
           ELSE IF t = "]" /\ i = Len(toks) THEN Some(entries)
           ELSE Undefined

ParseArray(tokens) ==
  IF tokens # <<>> /\ tokens[1] = "["
  THEN ParseItems(tokens, 2, "value", <<>>, <<>>)
  ELSE Undefined

----------------------------------------------------------------------------
(* Cron periods, as the runner agent evaluates OffPeakPeriods: seven fields  *)
(* (second minute hour day-of-month month day-of-week year), a field "*" or  *)
(* a list of values and inclusive ranges.                                    *)

RECURSIVE SplitOn(_, _, _, _)
SplitOn(s, sep, cur, done) ==
  IF s = <<>> THEN Append(done, cur)
  ELSE IF Head(s) = sep THEN SplitOn(Tail(s), sep, <<>>, Append(done, cur))
  ELSE SplitOn(Tail(s), sep, Append(cur, Head(s)), done)

DayNames == <<"sun", "mon", "tue", "wed", "thu", "fri", "sat">>

CronValue(token) ==
  IF token \in Range(DayNames) THEN IndexOf(DayNames, token) - 1
  ELSE CHOOSE n \in 0..59 : NumberString(n) = token

CronItem(item) ==
  IF Len(item) = 3 /\ item[2] = "-"
  THEN CronValue(item[1])..CronValue(item[3])
  ELSE {CronValue(item[1])}

\* the values a field admits, given all the values it could take
CronField(field, all) ==
  IF field = <<"*">> THEN all
  ELSE LET items == SplitOn(field, ",", <<>>, <<>>)
       IN UNION {CronItem(items[k]) : k \in 1..Len(items)}

Seconds == 0..59
Minutes == 0..59
Hours == 0..23
DaysOfMonth == 1..31
Months == 1..12
DaysOfWeek == 0..6
Years == 1970..2099

CronPeriod(entry) ==
  LET f == SplitOn(entry, " ", <<>>, <<>>)
  IN [second |-> CronField(f[1], Seconds),
      minute |-> CronField(f[2], Minutes),
      hour |-> CronField(f[3], Hours),
      dom |-> CronField(f[4], DaysOfMonth),
      month |-> CronField(f[5], Months),
      dow |-> CronField(f[6], DaysOfWeek),
      year |-> CronField(f[7], Years)]

\* an instant is in a period when every field admits it
PeriodCovers(period, t) ==
  /\ t.second \in period.second /\ t.minute \in period.minute
  /\ t.hour \in period.hour /\ t.dom \in period.dom
  /\ t.month \in period.month /\ t.dow \in period.dow
  /\ t.year \in period.year

----------------------------------------------------------------------------
(* GitlabRunnerStack: the constructor *)

CfnInitCommand(options) ==
  <<"/opt/aws/bin/cfn-init">> \o options
    \o <<"--stack", stackName, "--region", region,
         "--resource", "Manager", "--configsets", "default">>

\* userData.addCommands(...)
UserDataCommands ==
  << <<"yum", "update", "-y", "aws-cfn-bootstrap">>,
     CfnInitCommand(<<>>),
     <<"/opt/aws/bin/cfn-signal", "-e", "$?", "--stack", region,
       "--region", region, "--resource", "Manager">> >>

InitPackage(name) == [kind |-> "package", name |-> name, content |-> <<>>]
InitCommand(key) == [kind |-> "command", name |-> key, content |-> <<>>]
InitService(name) == [kind |-> "service", name |-> name, content |-> <<>>]
InitFile(path, content) == [kind |-> "file", name |-> path, content |-> content]

CfnHupConf ==
  << <<"[", "main", "]">>,
     <<"stack", "=", stackName>>,
     <<"region", "=", region>> >>

CfnAutoReloaderConf ==
  << <<"[", "cfn-auto-reloader-hook", "]">>,
     <<"triggers", "=", "post.update">>,
     <<"path", "=", "Resources.Manager.Metadata.AWS::CloudFormation::Init">>,
     <<"action", "=">> \o CfnInitCommand(<<"-v">>),
     <<"runas", "=", "root">> >>

RsyslogConf ==
  << <<":programname,", "isequal,", Q, "gitlab-runner", Q,
       "/var/log/gitlab-runner.log">> >>

ConfigTomlPath == "/etc/gitlab-runner/config.toml"
AutoReloaderPath == "/etc/cfn/hooks.d/cfn-auto-reloader.conf"

\* CloudFormationInit.fromConfigSets({configSets, configs})
Metadata(p) ==
  [configSets |->
     [install |-> <<"reposritories", "packages">>,
      config |-> <<"config">>],
   configs |->
     [repositories |-> <<InitCommand("10-gitlab-runner")>>,
      packages |->
        <<InitPackage("docker"), InitPackage("gitlab-runner"), InitPackage("tzdata"),
          InitFile("/etc/cfn/cfn-hup.conf", CfnHupConf),
          InitFile(AutoReloaderPath, CfnAutoReloaderConf),
          InitCommand("10-gitlab-runner"),
          InitCommand("20-gitlab-runner-start"),
          InitService("cfn-hup")>>,
      config |->
        <<InitFile(ConfigTomlPath, ConfigToml(p)),
          InitFile("/etc/rsyslog.d/25-gitlab-runner.conf", RsyslogConf),
          InitService("gitlab-runner"),
          InitService("rsyslog")>>]]

\* const lifeCycleRuleEnabled = props.cacheExpirationInDays === 0
lifeCycleRuleEnabled(p) == p.cacheExpirationInDays = 0

\* new Bucket(this, "GitlabRunnerCacheBucket", {...}); the expiration date is
\* kept as the day number handed to setDate
CacheBucket(p, today) ==
  [bucketName |-> p.cacheBucketName,
   lifecycleRules |->
     <<[enabled |-> lifeCycleRuleEnabled(p),
        expirationDate |-> today + p.cacheExpirationInDays]>>,
   encryption |-> "KMS",
   bucketKeyEnabled |-> TRUE]

\* new Instance(this, "Instance", {...}): no init is passed, so the instance
\* resource carries no AWS::CloudFormation::Init metadata; its default
\* instance profile is replaced by the manager's
ManagerInstance(p) ==
  [id |-> "Instance",
   instanceType |-> p.instanceTypeIdentifier,
   userData |-> UserDataCommands,
   keyName |-> p.managerKeyPair,
   iamInstanceProfile |-> "ManagerInstanceProfile",
   init |-> Undefined]

Todays == 1..MaxToday

\* The constructor.  Nothing in it reads the annotations of the tree.
StackConstructor ==
  /\ gitlabStack = Undefined
  /\ \E today \in Todays :
       gitlabStack' =
         Some([manager |-> ManagerInstance(stackProps),
               metadata |-> Metadata(stackProps),
               cacheBucket |-> CacheBucket(stackProps, today)])
  /\ UNCHANGED <<props, stackProps, jobRunner, scope, annotations, tags,
                 manager, previous, uniqueNames>>

----------------------------------------------------------------------------
(* The boot commands on the manager instance *)

\* the value that follows an option on a command line
OptionValue(argv, option) ==
  IF \E i \in 1..(Len(argv) - 1) : argv[i] = option
  THEN Some(argv[(CHOOSE i \in 1..(Len(argv) - 1) : argv[i] = option) + 1])
  ELSE Undefined

IsCfnInit(argv) == argv # <<>> /\ argv[1] = "/opt/aws/bin/cfn-init"

NotBooted ==
  [booted |-> FALSE, initOk |-> FALSE, packages |-> {}, files |-> {},
   services |-> {}]

Names(elements, kind) ==
  {elements[k].name : k \in {i \in 1..Len(elements) : elements[i].kind = kind}}

\* cfn-init --resource R --configsets S: fails when the stack has no resource
\* R with init metadata, when the metadata has no config set S, or when the
\* config set names a config the metadata does not define; otherwise applies
\* the configs of the set in order.
CfnInit(stack, argv) ==
  LET resource == The(OptionValue(argv, "--resource"))
      set == The(OptionValue(argv, "--configsets"))
      init == IF stack.manager.id = resource THEN stack.manager.init ELSE Undefined
      configs == The(init).configs
      names == The(init).configSets[set]
      defined == /\ init # Undefined
                 /\ set \in DOMAIN The(init).configSets
                 /\ \A k \in 1..Len(names) : names[k] \in DOMAIN configs
      elements == Flatten([k \in 1..Len(names) |-> configs[names[k]]])
  IN IF defined
     THEN [booted |-> TRUE, initOk |-> TRUE,
           packages |-> Names(elements, "package"),
           files |-> Names(elements, "file"),
           services |-> Names(elements, "service")]
     ELSE [NotBooted EXCEPT !.booted = TRUE]

\* The instance boots and runs its user data.
Boot ==
  /\ gitlabStack # Undefined
  /\ ~manager.booted
  /\ LET commands == The(gitlabStack).manager.userData
         inits == {k \in 1..Len(commands) : IsCfnInit(commands[k])}
     IN manager' = CfnInit(The(gitlabStack), commands[CHOOSE k \in inits : TRUE])
  /\ UNCHANGED <<props, stackProps, jobRunner, scope, annotations, tags,
                 gitlabStack, previous, uniqueNames>>

----------------------------------------------------------------------------
(* The app is synthesised again from the same declarations: a new construct *)
(* tree, the ids of the last one remembered for comparison.                 *)

NewApp ==
  /\ jobRunner # Undefined \/ gitlabStack # Undefined
  /\ previous' =
       IF jobRunner = Undefined THEN previous
       ELSE Some([role |-> The(jobRunner).role.id,
                  instanceProfile |-> The(jobRunner).instanceProfile.id])
  /\ jobRunner' = Undefined
  /\ scope' = {}
  /\ annotations' = {}
  /\ tags' = {}
  /\ gitlabStack' = Undefined
  /\ manager' = NotBooted
  /\ uniqueNames' = {}
  /\ UNCHANGED <<props, stackProps>>

----------------------------------------------------------------------------
(* Specifications *)

Empty ==
  /\ jobRunner = Undefined
  /\ scope = {}
  /\ annotations = {}
  /\ tags = {}
  /\ gitlabStack = Undefined
  /\ manager = NotBooted
  /\ previous = Undefined
  /\ uniqueNames = {}

\* a plain declaration of each kind, used where the other one varies
PlainProps ==
  [token |-> Some("ptok"),
   configuration |->
     [token |-> Undefined, name |-> Some(<<"a">>), keypairName |-> Undefined],
   instanceType |-> Undefined,
   machineImage |-> Undefined,
   role |-> Undefined,
   keyPair |-> Undefined]

\* resolution alone, over every runner group declaration
InitRunner ==
  /\ props \in GitlabRunnerAutoscalingJobRunnerProps
  /\ stackProps = PlainStackProps
  /\ Empty

NextRunner ==
  \/ JobRunnerConstructor
  \/ NewApp

SpecRunner == InitRunner /\ [][NextRunner]_vars

\* generation alone, over every stack declaration
InitStack ==
  /\ props = PlainProps
  /\ stackProps \in GitlabRunnerStackProps
  /\ Empty

NextStack ==
  \/ StackConstructor
  \/ Boot
  \/ NewApp

SpecStack == InitStack /\ [][NextStack]_vars

\* resolution and generation in one app; the fields the diagnostics are about
\* vary on both sides
Init ==
  /\ props \in {p \in GitlabRunnerAutoscalingJobRunnerProps :
                  /\ p.configuration.name = PlainProps.configuration.name
                  /\ p.instanceType = Undefined /\ p.machineImage = Undefined
                  /\ p.role = Undefined}
  /\ stackProps \in {p \in GitlabRunnerStackProps :
                       /\ p.gitlabMaxBuilds = 1 /\ p.gitlabMaxConcurrentBuilds = 1
                       /\ p.gitlabCheckInterval = 0
                       /\ p.cacheExpirationInDays = 1}
  /\ Empty

Next ==
  \/ JobRunnerConstructor
  \/ StackConstructor
  \/ Boot
  \/ NewApp

Spec == Init /\ [][Next]_vars

----------------------------------------------------------------------------
(* What the claims read *)

ErrorRecorded == \E a \in annotations : a.level = "error"

FileContent(elements, path) ==
  elements[CHOOSE k \in 1..Len(elements) :
             elements[k].kind = "file" /\ elements[k].name = path].content

\* the generated bootstrap document
Document == FileContent(The(gitlabStack).metadata.configs.config, ConfigTomlPath)

MachineOptionsTokens == ValueTokens(Document, "runners.machine", "MachineOptions")

Keys(entries) == {entries[k][1] : k \in {i \in 1..Len(entries) : entries[i] # <<>>}}

SpotKeys == {"amazonec2-request-spot-instance", "amazonec2-spot-price"}

----------------------------------------------------------------------------
(* Claims *)

KeyPairWithoutName ==
  /\ props.keyPair # Undefined
  /\ props.configuration.keypairName \in {Undefined, Some("")}

\* C1, the diagnostic: once the group is resolved, the keyPair error is on
\* record exactly when keyPair is set and keypairName is absent or empty.
C1_KeyPairDiagnostic ==
  jobRunner # Undefined =>
    (KeyPairWithoutName <=>
       [level |-> "error", message |-> KeyPairError] \in annotations)

\* C1, the refusal: no step taken with an error on record generates the
\* artifact.
C1_NoArtifactAfterError ==
  [][ErrorRecorded => (gitlabStack' = Undefined \/ gitlabStack' = gitlabStack)]_vars

\* C1: a group with keyPair set and keypairName unset gets an error
\* diagnostic, any other group gets none from this rule, and no artifact is
\* generated after the error is recorded.
C1_KeyPairErrorStopsGeneration ==
  []C1_KeyPairDiagnostic /\ C1_NoArtifactAfterError

\* C2: in the rendered MachineOptions list, which is a well-formed list of
\* non-empty quoted entries, the spot-request and the spot-price entries are
\* both present when spot instances are enabled and both absent, leaving no
\* token behind, when they are disabled.
C2_SpotDirectivesIffEnabled ==
  gitlabStack # Undefined =>
    LET tokens == MachineOptionsTokens
        parsed == ParseArray(tokens)
        spot == stackProps.gitlabRunnerSpotInstance
    IN /\ parsed # Undefined
       /\ \A k \in 1..Len(The(parsed)) : The(parsed)[k] # <<>>
       /\ \A key \in SpotKeys : key \in Keys(The(parsed)) <=> spot
       /\ ~spot => \A i \in 1..Len(tokens) : tokens[i] \notin SpotKeys

\* C3: with spot instances enabled and no price supplied an error is
\* recorded and the document has no spot-price directive; every spot-price
\* directive of a generated document carries the price that was supplied.
C3_SpotPriceSupplied ==
  gitlabStack # Undefined =>
    LET tokens == MachineOptionsTokens
        at == {i \in 1..Len(tokens) : tokens[i] = "amazonec2-spot-price"}
        price == stackProps.gitlabRunnerSpotInstancePrice
    IN /\ (stackProps.gitlabRunnerSpotInstance /\ price = Undefined)
            => (ErrorRecorded /\ at = {})
       /\ \A i \in at :
            /\ price # Undefined
            /\ i + 2 <= Len(tokens)
            /\ tokens[i + 1] = "=" /\ tokens[i + 2] = The(price)

\* C4: the resolved token is configuration.token when present and the token
\* parameter's value otherwise; a token that is then absent or empty is
\* reported as an error; a generated document carries a non-empty token that
\* was supplied.
C4_TokenResolvedOrError ==
  /\ jobRunner # Undefined =>
       LET token == The(jobRunner).configuration.token
       IN /\ token = IF props.configuration.token # Undefined
                     THEN props.configuration.token ELSE props.token
          /\ token \in {Undefined, Some("")} => ErrorRecorded
  /\ gitlabStack # Undefined =>
       /\ stackProps.gitlabToken \notin {Undefined, Some("")}
       /\ ValueTokens(Document, "runners", "token")
            = <<Q, The(stackProps.gitlabToken), Q>>

\* C5: the cache bucket has one lifecycle rule, enabled exactly when
\* cacheExpirationInDays is not 0.
C5_LifecycleEnabledIffNonZero ==
  gitlabStack # Undefined =>
    LET rules == The(gitlabStack).cacheBucket.lifecycleRules
    IN /\ Len(rules) = 1
       /\ rules[1].enabled <=> stackProps.cacheExpirationInDays # 0

\* C6: the resolved name is never empty; a supplied non-empty name is kept;
\* the generator runs only when no name, or the empty one, was supplied.
C6_NameNonEmpty ==
  jobRunner # Undefined =>
    LET name == The(jobRunner).configuration.name
        supplied == props.configuration.name
    IN /\ name # Undefined /\ The(name) # <<>>
       /\ supplied \notin {Undefined, Some(<<>>)} => name = supplied
       /\ uniqueNames # {} => supplied \in {Undefined, Some(<<>>)}

\* the role and the profile of the group that was resolved: a supplied role
\* is the resolved role and no role is created; otherwise one role is
\* created, named after the resolved name, with one managed policy; one
\* profile is created, named after the resolved name, whose roles are the
\* resolved role alone
RoleAndProfileAsResolved ==
  LET r == The(jobRunner)
      name == The(r.configuration.name)
      roles == {c \in scope : c.type = "Role"}
      profiles == {c \in scope : c.type = "CfnInstanceProfile"}
      roleId == <<"RunnersRoleFor">> \o pascalCase(name)
      profileId == <<"RunnersInstanceProfileFor">> \o pascalCase(name)
  IN /\ props.role # Undefined => (r.role = The(props.role) /\ roles = {})
     /\ props.role = Undefined =>
          /\ roles = {[type |-> "Role", id |-> roleId]}
          /\ r.role.id = roleId
          /\ Len(r.role.managedPolicies) = 1
     /\ profiles = {[type |-> "CfnInstanceProfile", id |-> profileId]}
     /\ r.instanceProfile.id = profileId
     /\ r.instanceProfile.roles = <<r.role.roleName>>

SameIdsAsPrevious ==
  The(previous) = [role |-> The(jobRunner).role.id,
                   instanceProfile |-> The(jobRunner).instanceProfile.id]

\* C7 as stated: roles and profile as resolved, and resolving the same
\* declaration again yields the same role and profile identifiers.
C7_IdentityIdempotent ==
  jobRunner # Undefined =>
    /\ RoleAndProfileAsResolved
    /\ previous # Undefined => SameIdsAsPrevious

\* C7 as amended: roles and profile as resolved, and resolving again a
\* declaration that supplies a name yields the same role and profile
\* identifiers.
C7_IdentityIdempotentWhenNamed ==
  jobRunner # Undefined =>
    /\ RoleAndProfileAsResolved
    /\ (previous # Undefined /\ props.configuration.name # Undefined)
         => SameIdsAsPrevious

\* a named group without a supplied role, resolved for the second time
C7_ResolvedAgain ==
  /\ jobRunner # Undefined /\ previous # Undefined
  /\ props.configuration.name # Undefined /\ props.role = Undefined
  /\ The(jobRunner).role.id # <<"RunnersRoleFor">>

\* C8: OffPeakPeriods holds two periods that do not look at second, day of
\* month, month or year and that together cover exactly Monday to Friday
\* before 08:00 and from 18:00 on, and all of Saturday and Sunday.
C8_OffPeakSchedule ==
  gitlabStack # Undefined =>
    LET parsed == ParseArray(ValueTokens(Document, "runners.machine", "OffPeakPeriods"))
        periods == [k \in 1..Len(The(parsed)) |-> CronPeriod(The(parsed)[k])]
        covered == {t \in DaysOfWeek \X Hours \X Minutes :
                      \E k \in 1..Len(periods) :
                        /\ t[1] \in periods[k].dow
                        /\ t[2] \in periods[k].hour
                        /\ t[3] \in periods[k].minute}
    IN /\ parsed # Undefined /\ Len(The(parsed)) = 2
       /\ \A k \in 1..Len(periods) :
            /\ periods[k].second = Seconds /\ periods[k].dom = DaysOfMonth
            /\ periods[k].month = Months /\ periods[k].year = Years
       /\ covered = {t \in DaysOfWeek \X Hours \X Minutes :
                       \/ t[1] \in {0, 6}
                       \/ t[2] < 8 \/ t[2] >= 18}

\* C9: the config sets the boot command and the auto-reload hook name are
\* defined, every config a config set lists is defined, and a manager that
\* has booted has the packages installed, the runner configuration written
\* and the runner agent and the log forwarder enabled.
C9_BootstrapRunnable ==
  gitlabStack # Undefined =>
    LET stack == The(gitlabStack)
        md == stack.metadata
        commands == stack.manager.userData
        hook == ValueTokens(FileContent(md.configs.packages, AutoReloaderPath),
                            "cfn-auto-reloader-hook", "action")
        named == {OptionValue(commands[k], "--configsets") :
                    k \in {i \in 1..Len(commands) : IsCfnInit(commands[i])}}
                 \cup {OptionValue(hook, "--configsets")}
    IN /\ \A set \in named : set # Undefined /\ The(set) \in DOMAIN md.configSets
       /\ \A set \in DOMAIN md.configSets :
            \A k \in 1..Len(md.configSets[set]) :
              md.configSets[set][k] \in DOMAIN md.configs
       /\ manager.booted =>
            /\ manager.initOk
            /\ {"docker", "gitlab-runner", "tzdata"} \subseteq manager.packages
            /\ ConfigTomlPath \in manager.files
            /\ {"gitlab-runner", "rsyslog"} \subseteq manager.services

\* C10: in the document, concurrent is maxConcurrentBuilds, check_interval
\* is checkInterval and MaxBuilds of the machine block is maxBuilds.
C10_NumericFields ==
  gitlabStack # Undefined =>
    /\ ParseNumber(ValueTokens(Document, "", "concurrent"))
         = Some(stackProps.gitlabMaxConcurrentBuilds)
    /\ ParseNumber(ValueTokens(Document, "", "check_interval"))
         = Some(stackProps.gitlabCheckInterval)
    /\ ParseNumber(ValueTokens(Document, "runners.machine", "MaxBuilds"))
         = Some(stackProps.gitlabMaxBuilds)

====
